---- MODULE Spec2Model ----
(***************************************************************************)
(* A model of the mini shell of src/shell.cpp (lines 1-514): the tokenizer, *)
(* the redirection validator, the pipe splitter and the read loop of main   *)
(* with the processes it forks.                                             *)
(*                                                                          *)
(* A C++ string is a sequence of one-character strings; a vector<string>    *)
(* is a sequence of such sequences.                                         *)
(***************************************************************************)
EXTENDS Integers, Sequences, FiniteSets, TLC

\* ------------------------------------------------------------------ bounds
\* Longest line, in characters, of the parsing specification SpecParse.
MaxLen == 5
\* Most words of a line when the shell's input is a single line.
MaxWords == 4
\* Most lines of a longer input of the shell.
MaxLines == 2
\* Most children of the shell alive (or unreaped) at one time.
MaxProcs == 2

\* ------------------------------------------------------------- characters
QUOTE == "\""
SP == " "

\* isspace() of <cctype> on the characters the model draws.
isspace(c) == c \in {" ", "\t", "\n", "\r", "\f"}

\* The characters trim() strips.
TrimChar(c) == c \in {" ", "\t", "\n", "\r"}

S(c) == <<c>>
LT == <<"<">>
GT == <<">">>
BAR == <<"|">>
AMP == <<"&">>
EXIT == <<"e", "x", "i", "t">>
CD == <<"c", "d">>

RECURSIVE FirstNot(_, _)
\* s.find_first_not_of(" \t\n\r") from position a; Len(s)+1 stands for npos.
FirstNot(s, a) ==
    IF a > Len(s) THEN Len(s) + 1
    ELSE IF TrimChar(s[a]) THEN FirstNot(s, a + 1) ELSE a

RECURSIVE LastNot(_, _)
\* s.find_last_not_of(" \t\n\r") from position b downwards; 0 stands for npos.
LastNot(s, b) ==
    IF b < 1 THEN 0
    ELSE IF TrimChar(s[b]) THEN LastNot(s, b - 1) ELSE b

trim(s) ==
    LET a == FirstNot(s, 1)
    IN  IF a = Len(s) + 1 THEN << >>
        ELSE SubSeq(s, a, LastNot(s, Len(s)))

\* -------------------------------------------------------------- tokenizer
\* TokLoop without the two "if (!cur.empty())" tests: an empty cur is pushed.
RECURSIVE TokLoopNoEmptyCheck(_, _, _, _, _, _, _)
TokLoopNoEmptyCheck(ln, i, tokens, cur, in_quote, spans, curSrc) ==
    IF i > Len(ln)
    THEN IF in_quote
         THEN [tokens |-> << >>, error |-> "Error: Unterminated quote",
               spans |-> << >>]
         ELSE [tokens |-> Append(tokens, cur), error |-> "",
               spans |-> Append(spans, curSrc)]
    ELSE LET c == ln[i]
         IN  IF c = QUOTE
             THEN TokLoopNoEmptyCheck(ln, i + 1, tokens, cur, ~in_quote, spans, curSrc)
             ELSE IF ~in_quote /\ isspace(c)
             THEN TokLoopNoEmptyCheck(ln, i + 1, Append(tokens, cur), << >>, in_quote,
                                      Append(spans, curSrc), << >>)
             ELSE TokLoopNoEmptyCheck(ln, i + 1, tokens, Append(cur, c), in_quote,
                                      spans, Append(curSrc, i))

\* The loop of tokenize.  cur/tokens are the code's; curSrc/spans record,
\* for every character kept, its position in the line (history only).
RECURSIVE TokLoop(_, _, _, _, _, _, _)
TokLoop(ln, i, tokens, cur, in_quote, spans, curSrc) ==
    IF i > Len(ln)
    THEN LET tokens2 == IF cur # << >> THEN Append(tokens, cur) ELSE tokens
             spans2 == IF cur # << >> THEN Append(spans, curSrc) ELSE spans
         IN  IF in_quote
             THEN [tokens |-> << >>, error |-> "Error: Unterminated quote",
                   spans |-> << >>]
             ELSE [tokens |-> tokens2, error |-> "", spans |-> spans2]
    ELSE LET c == ln[i]
         IN  IF c = QUOTE
             THEN TokLoop(ln, i + 1, tokens, cur, ~in_quote, spans, curSrc)
             ELSE IF ~in_quote /\ isspace(c)
             THEN IF cur # << >>
                  THEN TokLoop(ln, i + 1, Append(tokens, cur), << >>, in_quote,
                               Append(spans, curSrc), << >>)
                  ELSE TokLoop(ln, i + 1, tokens, cur, in_quote, spans, curSrc)
             ELSE TokLoop(ln, i + 1, tokens, Append(cur, c), in_quote,
                          spans, Append(curSrc, i))

\* tokenize without the final "if (in_quote)" test: the tokens gathered so
\* far are returned with no error.
tokenizeNoQuoteCheck(ln) ==
    IF TokLoop(ln, 1, << >>, << >>, FALSE, << >>, << >>).error = ""
    THEN TokLoop(ln, 1, << >>, << >>, FALSE, << >>, << >>)
    ELSE TokLoop(Append(ln, QUOTE), 1, << >>, << >>, FALSE, << >>, << >>)

tokenize(ln) == TokLoop(ln, 1, << >>, << >>, FALSE, << >>, << >>)

\* ------------------------------------------------- redirection validation
\* isOperator without the "&" case.
isOperatorNoAmp(s) == s = LT \/ s = GT \/ s = BAR

isOperator(s) == s = LT \/ s = GT \/ s = BAR \/ s = AMP

RECURSIVE ValLoop(_, _)
ValLoop(tokens, i) ==
    IF i > Len(tokens) THEN ""
    ELSE IF tokens[i] = LT \/ tokens[i] = GT
    THEN IF i + 1 > Len(tokens)
         THEN IF tokens[i] = LT THEN "Error: < operator missing filename"
              ELSE "Error: > operator missing filename"
         ELSE IF isOperator(tokens[i + 1])
         THEN IF tokens[i] = LT
              THEN "Error: < operator followed by another operator"
              ELSE "Error: > operator followed by another operator"
         ELSE IF tokens[i] = LT
                 /\ \E j \in (i + 2)..Len(tokens) : tokens[j] = LT
         THEN "Error: Multiple input redirections not supported"
         ELSE IF tokens[i] = GT
                 /\ \E j \in (i + 2)..Len(tokens) : tokens[j] = GT
         THEN "Error: Multiple output redirections not supported"
         ELSE ValLoop(tokens, i + 1)
    ELSE ValLoop(tokens, i + 1)

\* validate_redirection without the two inner loops that look for a second
\* redirection of the same direction.
validate_redirectionNoDuplicateCheck(tokens) ==
    IF ValLoop(tokens, 1) \in {"Error: Multiple input redirections not supported",
                               "Error: Multiple output redirections not supported"}
    THEN ""
    ELSE ValLoop(tokens, 1)

validate_redirection(tokens) == ValLoop(tokens, 1)

\* ------------------------------------------------------------ pipe parsing
\* split_pipe's loop; err is TRUE when "Multiple pipes not supported" was
\* written to cerr.
RECURSIVE SplitLoop(_, _, _, _, _)
SplitLoop(tokens, i, leftCmd, rightCmd, pipeSeen) ==
    IF i > Len(tokens)
    THEN [left |-> leftCmd, right |-> rightCmd, err |-> FALSE]
    ELSE IF tokens[i] = BAR
    THEN IF pipeSeen
         THEN [left |-> << >>, right |-> << >>, err |-> TRUE]
         ELSE SplitLoop(tokens, i + 1, leftCmd, rightCmd, TRUE)
    ELSE IF ~pipeSeen
    THEN SplitLoop(tokens, i + 1, Append(leftCmd, tokens[i]), rightCmd, pipeSeen)
    ELSE SplitLoop(tokens, i + 1, leftCmd, Append(rightCmd, tokens[i]), pipeSeen)

RECURSIVE SplitLoopNoMultipleCheck(_, _, _, _, _)
SplitLoopNoMultipleCheck(tokens, i, leftCmd, rightCmd, pipeSeen) ==
    IF i > Len(tokens)
    THEN [left |-> leftCmd, right |-> rightCmd, err |-> FALSE]
    ELSE IF tokens[i] = BAR
    THEN SplitLoopNoMultipleCheck(tokens, i + 1, leftCmd, rightCmd, TRUE)
    ELSE IF ~pipeSeen
    THEN SplitLoopNoMultipleCheck(tokens, i + 1, Append(leftCmd, tokens[i]),
                                  rightCmd, pipeSeen)
    ELSE SplitLoopNoMultipleCheck(tokens, i + 1, leftCmd,
                                  Append(rightCmd, tokens[i]), pipeSeen)

\* split_pipe without the "if (pipeSeen)" test: a second "|" is skipped like
\* the first.
split_pipeNoMultipleCheck(tokens) ==
    SplitLoopNoMultipleCheck(tokens, 1, << >>, << >>, FALSE)

split_pipe(tokens) == SplitLoop(tokens, 1, << >>, << >>, FALSE)

\* ------------------------------------------------------------ exit's stoi
isdigit(c) == c \in {"0", "1", "2", "3", "4", "5", "6", "7", "8", "9"}

DigitVal(c) ==
    CASE c = "0" -> 0 [] c = "1" -> 1 [] c = "2" -> 2 [] c = "3" -> 3
      [] c = "4" -> 4 [] c = "5" -> 5 [] c = "6" -> 6 [] c = "7" -> 7
      [] c = "8" -> 8 [] c = "9" -> 9

RECURSIVE SkipSpace(_, _)
SkipSpace(s, i) ==
    IF i <= Len(s) /\ isspace(s[i]) THEN SkipSpace(s, i + 1) ELSE i

RECURSIVE Digits(_, _, _)
Digits(s, i, acc) ==
    IF i <= Len(s) /\ isdigit(s[i])
    THEN Digits(s, i + 1, acc * 10 + DigitVal(s[i]))
    ELSE acc

\* std::stoi: leading whitespace, an optional sign, then at least one digit;
\* ok = FALSE stands for the std::invalid_argument it throws otherwise.
stoi(s) ==
    LET i == SkipSpace(s, 1)
        neg == i <= Len(s) /\ s[i] = "-"
        j == IF i <= Len(s) /\ s[i] \in {"-", "+"} THEN i + 1 ELSE i
    IN  IF j <= Len(s) /\ isdigit(s[j])
        THEN [ok |-> TRUE, val |-> IF neg THEN 0 - Digits(s, j, 0) ELSE Digits(s, j, 0)]
        ELSE [ok |-> FALSE, val |-> 0]

\* ------------------------------------------------------------------ inputs
RECURSIVE Join(_)
\* The words of ws separated by single spaces.
Join(ws) ==
    IF ws = << >> THEN << >>
    ELSE IF Len(ws) = 1 THEN ws[1]
    ELSE ws[1] \o S(SP) \o Join(Tail(ws))

SeqsUpTo(A, n) == UNION {[1..k -> A] : k \in 0..n}

\* Lines of words separated by one space.
Words == {S("a"), S("7"), EXIT, CD, LT, GT, BAR, AMP, S(QUOTE)}
Lines == {Join(ws) : ws \in SeqsUpTo(Words, MaxWords)}

\* Lines that exercise every branch of the launcher.
LaunchLines ==
    {Join(ws) : ws \in
        {<<S("a")>>, <<S("a"), AMP>>,
         <<S("a"), BAR, S("7")>>, <<S("a"), BAR, S("7"), AMP>>,
         <<S(QUOTE), S("a")>>, <<CD, S("a")>>, <<EXIT, S("7")>>}}

\* What the shell finds on its standard input: one line of up to MaxWords
\* words, or up to MaxLines launcher lines; then end of input.
\* The documented example `cmd < in.txt > out.txt arg` (c, i, o for the
\* names), lines with both redirections on one side of a pipe or one on
\* each, and `exit` with a signed number and with digits followed by a
\* letter.
ExampleLines ==
    {Join(ws) : ws \in
        {<<S("c"), LT, S("i"), GT, S("o"), S("a")>>,
         <<S("c"), LT, S("i"), GT, S("o"), BAR, S("a")>>,
         <<S("c"), BAR, S("a"), LT, S("i"), GT, S("o")>>,
         <<S("a"), LT, S("7"), GT, S("7")>>,
         <<S("a"), LT, S("7"), BAR, S("7"), GT, S("7")>>,
         <<EXIT, <<"-", "7">> >>, <<EXIT, <<"7", "a">> >>}}

Inputs == {<<l>> : l \in Lines \cup ExampleLines}
              \cup SeqsUpTo(LaunchLines, MaxLines)

\* The lines of the parsing specification: every string over Alphabet up to
\* MaxLen characters, every line of up to MaxLen operator/argument words, and
\* one longer example.
Alphabet == {"a", SP, QUOTE, "<", ">", "|", "&"}
ParseWords == {S("a"), LT, GT, BAR, AMP}
\* The documented example `"a b" c`, with a for every letter.
QuotedExample == <<QUOTE, "a", SP, "a", QUOTE, SP, "a">>
ParseLines == SeqsUpTo(Alphabet, MaxLen)
                \cup {Join(ws) : ws \in SeqsUpTo(ParseWords, MaxLen)}
                \cup {QuotedExample}

\* ------------------------------------------------------------------- state
VARIABLES
    input,        \* the lines still unread on standard input
    pc,           \* where main's loop stands
    line,         \* the line getline read
    trimmed,      \* trim(line)
    toks,         \* the token vector
    spans,        \* history: the positions in trimmed each token came from
    tok_error,    \* tokenize's error string
    background,   \* the background flag
    redir_error,  \* validate_redirection's result
    cmd1, cmd2,   \* the two sides split_pipe returned
    has_pipe,
    input_file, output_file,
    fds,          \* the pipe the parent holds: [id, r, w] with r/w open flags
    pids,         \* pid (single) or <<pid1, pid2>> as the parent knows them
    cwd,          \* the shell's working directory (the last path chdir took)
    exit_code,    \* -1 while the shell runs, else main's return value
    err_out,      \* what this iteration wrote to cerr, in order
    procs,        \* the kernel's table of the shell's children
    sigchld,      \* a SIGCHLD is pending for the shell
    reported,     \* the pids this iteration printed as background pids
    nopens,       \* history: files opened in this iteration by its children
    nforks,       \* history: children forked in this iteration
    npipes,       \* history: pipes created in this iteration
    nchdir,       \* history: successful chdir calls in this iteration
    sigint,       \* the shell's disposition for SIGINT
    errno,        \* the shell's errno
    hpc,          \* where sigchld_handler stands ("none" outside it)
    saved         \* sigchld_handler's local

parseVars == <<line, trimmed, toks, spans, tok_error, background, redir_error,
               cmd1, cmd2, has_pipe, err_out>>
launchVars == <<input_file, output_file, fds, pids, reported, nforks, npipes,
                nopens>>
kernelVars == <<procs, sigchld>>
shellVars == <<cwd, exit_code, nchdir>>
sigVars == <<sigint, errno, hpc, saved>>
vars == <<input, pc, parseVars, launchVars, kernelVars, shellVars, sigVars>>

NoFds == [id |-> 0, r |-> FALSE, w |-> FALSE]
Pids == 1..MaxProcs
TTY == [kind |-> "tty", id |-> 0, path |-> << >>]
PipeEnd(k, n) == [kind |-> k, id |-> n, path |-> << >>]
File(f) == [kind |-> "file", id |-> 0, path |-> f]
\* A slot of the process table; st = "free" when no child has that pid.
\* r/w: the child holds the pipe's read/write descriptor fds[0]/fds[1];
\* cur: the child was forked by the iteration main is in.
NoProc == [st |-> "free", role |-> "", argv |-> << >>, in_file |-> << >>,
           out_file |-> << >>, sigint |-> "", stdin |-> TTY, stdout |-> TTY,
           pipe |-> 0, r |-> FALSE, w |-> FALSE, status |-> 0, cur |-> FALSE]
HOME == S("~")
ROOT == S("/")

\* The values the loop body's locals have before an iteration defines them.
FreshLocals ==
    /\ line' = << >>
    /\ trimmed' = << >>
    /\ toks' = << >>
    /\ spans' = << >>
    /\ tok_error' = ""
    /\ background' = FALSE
    /\ redir_error' = ""
    /\ cmd1' = << >>
    /\ cmd2' = << >>
    /\ has_pipe' = FALSE
    /\ input_file' = << >>
    /\ output_file' = << >>
    /\ pids' = << >>
    /\ reported' = << >>
    /\ nopens' = 0
    /\ err_out' = << >>
    /\ nforks' = 0
    /\ npipes' = 0
    /\ nchdir' = 0

InitCommon ==
    /\ trimmed = << >>
    /\ toks = << >>
    /\ spans = << >>
    /\ tok_error = ""
    /\ background = FALSE
    /\ redir_error = ""
    /\ cmd1 = << >>
    /\ cmd2 = << >>
    /\ has_pipe = FALSE
    /\ input_file = << >>
    /\ output_file = << >>
    /\ fds = NoFds
    /\ pids = << >>
    /\ reported = << >>
    /\ nopens = 0
    /\ cwd = ROOT
    /\ exit_code = -1
    /\ err_out = << >>
    /\ procs = [p \in Pids |-> NoProc]
    /\ sigchld = FALSE
    /\ nforks = 0
    /\ npipes = 0
    /\ nchdir = 0
    /\ sigint = "ign"
    /\ errno = "OK"
    /\ hpc = "none"
    /\ saved = "OK"

\* main after setup_signal_handlers, about to show the first prompt.
Init ==
    /\ input \in Inputs
    /\ pc = "prompt"
    /\ line = << >>
    /\ InitCommon

\* main holding a line getline has just returned.
InitParse ==
    /\ input = << >>
    /\ pc = "trim"
    /\ line \in ParseLines
    /\ InitCommon

\* ---------------------------------------------------------------- main loop
\* cout << prompt; getline: end of input leaves the loop and main returns 0.
ReadLine ==
    /\ pc = "prompt"
    /\ hpc = "none"
    /\ IF input = << >>
       THEN /\ pc' = "done"
            /\ exit_code' = 0
            /\ UNCHANGED <<line, input>>
       ELSE /\ line' = Head(input)
            /\ input' = Tail(input)
            /\ pc' = "trim"
            /\ UNCHANGED exit_code
    /\ UNCHANGED <<trimmed, toks, spans, tok_error, background, redir_error,
                   cmd1, cmd2, has_pipe, err_out, launchVars, kernelVars,
                   cwd, nchdir>>
    /\ UNCHANGED sigVars

\* trimmed = trim(line); an empty line continues.
TrimLine ==
    /\ pc = "trim"
    /\ hpc = "none"
    /\ trimmed' = trim(line)
    /\ pc' = IF trim(line) = << >> THEN "continue" ELSE "tokenize"
    /\ UNCHANGED <<input, line, toks, spans, tok_error, background, redir_error,
                   cmd1, cmd2, has_pipe, err_out, launchVars, kernelVars,
                   shellVars>>
    /\ UNCHANGED sigVars

\* tokenize(trimmed); an error is printed and the line dropped; so is a line
\* with no token.
TokenizeLine ==
    /\ pc = "tokenize"
    /\ hpc = "none"
    /\ LET r == tokenize(trimmed)
       IN  /\ toks' = r.tokens
           /\ spans' = r.spans
           /\ tok_error' = r.error
           /\ err_out' = IF r.error # "" THEN Append(err_out, r.error) ELSE err_out
           /\ pc' = IF r.error # "" \/ r.tokens = << >> THEN "continue"
                    ELSE "background"
    /\ UNCHANGED <<input, line, trimmed, background, redir_error, cmd1, cmd2, has_pipe,
                   launchVars, kernelVars, shellVars>>
    /\ UNCHANGED sigVars

Front(s) == SubSeq(s, 1, Len(s) - 1)

\* A trailing "&" token sets the background flag and stays in toks.
DetectBackgroundKeepsToken ==
    /\ pc = "background"
    /\ hpc = "none"
    /\ IF toks # << >> /\ toks[Len(toks)] = AMP
       THEN /\ background' = TRUE
            /\ pc' = IF Front(toks) = << >> THEN "continue" ELSE "validate"
            /\ UNCHANGED <<toks, spans>>
       ELSE /\ pc' = "validate"
            /\ UNCHANGED <<background, toks, spans>>
    /\ UNCHANGED <<input, line, trimmed, tok_error, redir_error, cmd1, cmd2, has_pipe,
                   err_out, launchVars, kernelVars, shellVars>>
    /\ UNCHANGED sigVars

\* A trailing "&" token sets the background flag and is popped.
DetectBackground ==
    /\ pc = "background"
    /\ hpc = "none"
    /\ IF toks # << >> /\ toks[Len(toks)] = AMP
       THEN /\ background' = TRUE
            /\ toks' = Front(toks)
            /\ spans' = Front(spans)
            /\ pc' = IF Front(toks) = << >> THEN "continue" ELSE "validate"
       ELSE /\ pc' = "validate"
            /\ UNCHANGED <<background, toks, spans>>
    /\ UNCHANGED <<input, line, trimmed, tok_error, redir_error, cmd1, cmd2, has_pipe,
                   err_out, launchVars, kernelVars, shellVars>>
    /\ UNCHANGED sigVars

\* The validation step without its continue: the error is printed and the
\* line goes on to split_pipe.
ValidateLineNoContinue ==
    /\ pc = "validate"
    /\ hpc = "none"
    /\ redir_error' = validate_redirection(toks)
    /\ err_out' = IF validate_redirection(toks) # ""
                  THEN Append(err_out, validate_redirection(toks))
                  ELSE err_out
    /\ pc' = "split"
    /\ UNCHANGED <<input, line, trimmed, toks, spans, tok_error, background, cmd1,
                   cmd2, has_pipe, launchVars, kernelVars, shellVars>>
    /\ UNCHANGED sigVars

\* validate_redirection(toks); an error is printed and the line dropped.
ValidateLine ==
    /\ pc = "validate"
    /\ hpc = "none"
    /\ redir_error' = validate_redirection(toks)
    /\ IF validate_redirection(toks) # ""
       THEN /\ err_out' = Append(err_out, validate_redirection(toks))
            /\ pc' = "continue"
       ELSE /\ pc' = "split"
            /\ UNCHANGED err_out
    /\ UNCHANGED <<input, line, trimmed, toks, spans, tok_error, background, cmd1, cmd2,
                   has_pipe, launchVars, kernelVars, shellVars>>
    /\ UNCHANGED sigVars

\* split_pipe(toks), the empty-left check, cmd2 = cmd1 for an empty right
\* side, and has_pipe = (cmd2 != cmd1).
SplitLine ==
    /\ pc = "split"
    /\ hpc = "none"
    /\ LET r == split_pipe(toks)
           c2 == IF r.right = << >> THEN r.left ELSE r.right
       IN  /\ err_out' = IF r.err
                         THEN Append(err_out, "Error: Multiple pipes not supported")
                         ELSE err_out
           /\ cmd1' = r.left
           /\ IF r.left = << >> /\ toks # << >>
              THEN /\ pc' = "continue"
                   /\ cmd2' = r.right
                   /\ UNCHANGED has_pipe
              ELSE /\ cmd2' = c2
                   /\ has_pipe' = (c2 # r.left)
                   /\ pc' = "builtin"
    /\ UNCHANGED <<input, line, trimmed, toks, spans, tok_error, background, redir_error,
                   launchVars, kernelVars, shellVars>>
    /\ UNCHANGED sigVars

\* The continue statement (or the end of the loop body): the iteration's
\* locals go out of scope.
Continue ==
    /\ pc = "continue"
    /\ hpc = "none"
    /\ pc' = "prompt"
    /\ FreshLocals
    /\ procs' = [p \in Pids |-> [procs[p] EXCEPT !.cur = FALSE]]
    /\ UNCHANGED <<input, fds, sigchld, cwd, exit_code>>
    /\ UNCHANGED sigVars

NextParse ==
    \/ TrimLine
    \/ TokenizeLine
    \/ DetectBackground
    \/ ValidateLine
    \/ SplitLine
    \/ Continue

SpecParse == InitParse /\ [][NextParse]_vars

\* ------------------------------------------------------------- built-ins
\* The built-ins recognised only on a line without a pipe.
BuiltinsOnlyWithoutPipe ==
    /\ pc = "builtin"
    /\ hpc = "none"
    /\ IF toks[1] = EXIT /\ ~has_pipe
       THEN /\ IF Len(toks) > 1 /\ ~stoi(toks[2]).ok
               THEN pc' = "aborted" /\ UNCHANGED exit_code
               ELSE /\ pc' = "done"
                    /\ exit_code' = IF Len(toks) > 1 THEN stoi(toks[2]).val ELSE 0
            /\ UNCHANGED <<cwd, nchdir, err_out, errno>>
       ELSE IF toks[1] = CD /\ ~has_pipe
       THEN /\ pc' = "continue"
            /\ \/ /\ cwd' = IF Len(toks) > 1 THEN toks[2] ELSE HOME
                  /\ nchdir' = nchdir + 1
                  /\ UNCHANGED <<err_out, errno>>
               \/ /\ err_out' = Append(err_out, "cd")
                  /\ errno' = "ENOENT"
                  /\ UNCHANGED <<cwd, nchdir>>
            /\ UNCHANGED exit_code
       ELSE /\ pc' = IF has_pipe THEN "pipe" ELSE "resolve"
            /\ UNCHANGED <<cwd, nchdir, err_out, exit_code, errno>>
    /\ UNCHANGED <<input, line, trimmed, toks, spans, tok_error, background, redir_error,
                   cmd1, cmd2, has_pipe, launchVars, kernelVars>>
    /\ UNCHANGED <<sigint, hpc, saved>>

\* The built-ins without the perror after a failed chdir.
BuiltinsCdFailureSilent ==
    /\ pc = "builtin"
    /\ hpc = "none"
    /\ IF toks[1] = EXIT
       THEN /\ IF Len(toks) > 1 /\ ~stoi(toks[2]).ok
               THEN pc' = "aborted" /\ UNCHANGED exit_code
               ELSE /\ pc' = "done"
                    /\ exit_code' = IF Len(toks) > 1 THEN stoi(toks[2]).val ELSE 0
            /\ UNCHANGED <<cwd, nchdir, err_out, errno>>
       ELSE IF toks[1] = CD
       THEN /\ pc' = "continue"
            /\ \/ /\ cwd' = IF Len(toks) > 1 THEN toks[2] ELSE HOME
                  /\ nchdir' = nchdir + 1
                  /\ UNCHANGED <<err_out, errno>>
               \/ /\ errno' = "ENOENT"
                  /\ UNCHANGED <<err_out, cwd, nchdir>>
            /\ UNCHANGED exit_code
       ELSE /\ pc' = IF has_pipe THEN "pipe" ELSE "resolve"
            /\ UNCHANGED <<cwd, nchdir, err_out, exit_code, errno>>
    /\ UNCHANGED <<input, line, trimmed, toks, spans, tok_error, background, redir_error,
                   cmd1, cmd2, has_pipe, launchVars, kernelVars>>
    /\ UNCHANGED <<sigint, hpc, saved>>

\* toks[0] == "exit": main returns stoi(toks[1]) (0 without an argument); a
\* std::invalid_argument out of stoi is caught nowhere and aborts the shell.
\* toks[0] == "cd": chdir to toks[1] or $HOME, perror on failure, continue.
Builtins ==
    /\ pc = "builtin"
    /\ hpc = "none"
    /\ IF toks[1] = EXIT
       THEN /\ IF Len(toks) > 1 /\ ~stoi(toks[2]).ok
               THEN pc' = "aborted" /\ UNCHANGED exit_code
               ELSE /\ pc' = "done"
                    /\ exit_code' = IF Len(toks) > 1 THEN stoi(toks[2]).val ELSE 0
            /\ UNCHANGED <<cwd, nchdir, err_out, errno>>
       ELSE IF toks[1] = CD
       THEN /\ pc' = "continue"
            /\ \/ /\ cwd' = IF Len(toks) > 1 THEN toks[2] ELSE HOME
                  /\ nchdir' = nchdir + 1
                  /\ UNCHANGED <<err_out, errno>>
               \/ /\ err_out' = Append(err_out, "cd")
                  /\ errno' = "ENOENT"
                  /\ UNCHANGED <<cwd, nchdir>>
            /\ UNCHANGED exit_code
       ELSE /\ pc' = IF has_pipe THEN "pipe" ELSE "resolve"
            /\ UNCHANGED <<cwd, nchdir, err_out, exit_code, errno>>
    /\ UNCHANGED <<input, line, trimmed, toks, spans, tok_error, background, redir_error,
                   cmd1, cmd2, has_pipe, launchVars, kernelVars>>
    /\ UNCHANGED <<sigint, hpc, saved>>

\* ------------------------------------------------- redirection extraction
\* The loop of the single-command branch, keeping each redirection's file
\* name among the arguments.
RECURSIVE ExtractSingleKeepTarget(_, _, _, _, _)
ExtractSingleKeepTarget(cmd, i, inf, outf, cleaned) ==
    IF i > Len(cmd) THEN [input |-> inf, output |-> outf, argv |-> cleaned]
    ELSE IF cmd[i] = LT /\ i + 1 <= Len(cmd)
    THEN ExtractSingleKeepTarget(cmd, i + 1, cmd[i + 1], outf, cleaned)
    ELSE IF cmd[i] = GT /\ i + 1 <= Len(cmd)
    THEN ExtractSingleKeepTarget(cmd, i + 1, inf, cmd[i + 1], cleaned)
    ELSE ExtractSingleKeepTarget(cmd, i + 1, inf, outf, Append(cleaned, cmd[i]))

\* The loop of the single-command branch.
RECURSIVE ExtractSingle(_, _, _, _, _)
ExtractSingle(cmd, i, inf, outf, cleaned) ==
    IF i > Len(cmd) THEN [input |-> inf, output |-> outf, argv |-> cleaned]
    ELSE IF cmd[i] = LT /\ i + 1 <= Len(cmd)
    THEN ExtractSingle(cmd, i + 2, cmd[i + 1], outf, cleaned)
    ELSE IF cmd[i] = GT /\ i + 1 <= Len(cmd)
    THEN ExtractSingle(cmd, i + 2, inf, cmd[i + 1], cleaned)
    ELSE ExtractSingle(cmd, i + 1, inf, outf, Append(cleaned, cmd[i]))

\* The loop over the left side of a pipeline: "<" takes its file; ">" and
\* "|" tokens are dropped; everything else is kept.
RECURSIVE ExtractLeft(_, _, _, _)
ExtractLeft(cmd, i, inf, cleaned) ==
    IF i > Len(cmd) THEN [input |-> inf, argv |-> cleaned]
    ELSE IF cmd[i] = LT /\ i + 1 <= Len(cmd)
    THEN ExtractLeft(cmd, i + 2, cmd[i + 1], cleaned)
    ELSE IF cmd[i] # GT /\ cmd[i] # BAR
    THEN ExtractLeft(cmd, i + 1, inf, Append(cleaned, cmd[i]))
    ELSE ExtractLeft(cmd, i + 1, inf, cleaned)

\* The loop over the right side: ">" takes its file; "<" and "|" are dropped.
RECURSIVE ExtractRight(_, _, _, _)
ExtractRight(cmd, i, outf, cleaned) ==
    IF i > Len(cmd) THEN [output |-> outf, argv |-> cleaned]
    ELSE IF cmd[i] = GT /\ i + 1 <= Len(cmd)
    THEN ExtractRight(cmd, i + 2, cmd[i + 1], cleaned)
    ELSE IF cmd[i] # LT /\ cmd[i] # BAR
    THEN ExtractRight(cmd, i + 1, outf, Append(cleaned, cmd[i]))
    ELSE ExtractRight(cmd, i + 1, outf, cleaned)

\* ----------------------------------------------------------------- kernel
FreePids == {p \in Pids : procs[p].st = "free"}

\* A child as fork leaves it: a copy of the shell about to run the child
\* branch, SIGINT still ignored, holding the parent's pipe descriptors.
NewChild(role, argv, inf, outf) ==
    [st |-> "sigdfl", role |-> role, argv |-> argv, in_file |-> inf,
     out_file |-> outf, sigint |-> sigint, stdin |-> TTY, stdout |-> TTY,
     pipe |-> fds.id, r |-> fds.r, w |-> fds.w, status |-> 0, cur |-> TRUE]

PipeIds == 1..(MaxProcs + 1)

\* The pipes some process still holds an end of.
PipesInUse ==
    {procs[p].pipe : p \in {q \in Pids : procs[q].st # "free" /\ procs[q].pipe # 0}}
        \cup (IF fds.r \/ fds.w THEN {fds.id} ELSE {})

\* waitpid(pid, &status, 0) that returns for a zombie only and blocks when
\* the shell has no such child.
WaitReturnsZombieOnly(p) == procs[p].st = "zombie"

\* waitpid(pid, &status, 0) can return: the child is a zombie (and is
\* reaped), or the shell has no such child (ECHILD).
WaitReturns(p) == procs[p].st \in {"zombie", "free"}
Reap(p) == [procs EXCEPT ![p] = NoProc]
\* errno after that waitpid: ECHILD when the shell has no such child.
WaitErrno(p) == IF procs[p].st = "free" THEN "ECHILD" ELSE errno

\* ----------------------------------------------------- single-command path
ResolveSingle ==
    /\ pc = "resolve"
    /\ hpc = "none"
    /\ LET r == ExtractSingle(cmd1, 1, << >>, << >>, << >>)
       IN  /\ input_file' = r.input
           /\ output_file' = r.output
           /\ cmd1' = r.argv
           /\ pc' = IF r.argv = << >> THEN "continue" ELSE "fork"
    /\ UNCHANGED <<input, line, trimmed, toks, spans, tok_error, background, redir_error,
                   cmd2, has_pipe, err_out, fds, pids, reported, nforks, npipes,
                   nopens, kernelVars, shellVars>>
    /\ UNCHANGED sigVars

\* pid = fork(): it fails (perror, continue) or the child exists.
ForkSingle ==
    /\ pc = "fork"
    /\ hpc = "none"
    /\ \/ /\ err_out' = Append(err_out, "fork")
          /\ errno' = "EAGAIN"
          /\ pc' = "continue"
          /\ UNCHANGED <<procs, pids, nforks>>
       \/ /\ FreePids # {}
          /\ LET p == CHOOSE q \in FreePids : \A q2 \in FreePids : q <= q2
             IN  /\ procs' = [procs EXCEPT
                                 ![p] = NewChild("single", cmd1, input_file, output_file)]
                 /\ pids' = <<p>>
          /\ nforks' = nforks + 1
          /\ pc' = "parent"
          /\ UNCHANGED <<err_out, errno>>
    /\ UNCHANGED <<input, line, trimmed, toks, spans, tok_error, background, redir_error,
                   cmd1, cmd2, has_pipe, input_file, output_file, fds, reported,
                   npipes, nopens, sigchld, shellVars>>
    /\ UNCHANGED <<sigint, hpc, saved>>

\* The parent branch waiting for the child whatever the background flag.
ParentSingleAlwaysWait ==
    /\ pc = "parent"
    /\ hpc = "none"
    /\ WaitReturns(pids[1])
    /\ procs' = Reap(pids[1])
    /\ errno' = WaitErrno(pids[1])
    /\ reported' = IF background THEN Append(reported, pids[1]) ELSE reported
    /\ pc' = "continue"
    /\ UNCHANGED <<input, parseVars, input_file, output_file, fds, pids, nforks, npipes,
                   nopens, sigchld, shellVars>>
    /\ UNCHANGED <<sigint, hpc, saved>>

\* The parent branch: waitpid(pid) in the foreground, the pid report in the
\* background; then the loop body ends.
ParentSingle ==
    /\ pc = "parent"
    /\ hpc = "none"
    /\ IF ~background
       THEN /\ WaitReturns(pids[1])
            /\ procs' = Reap(pids[1])
            /\ errno' = WaitErrno(pids[1])
            /\ UNCHANGED reported
       ELSE /\ reported' = Append(reported, pids[1])
            /\ UNCHANGED <<procs, errno>>
    /\ pc' = "continue"
    /\ UNCHANGED <<input, parseVars, input_file, output_file, fds, pids, nforks, npipes,
                   nopens, sigchld, shellVars>>
    /\ UNCHANGED <<sigint, hpc, saved>>

\* ------------------------------------------------------------ pipeline path
\* The empty-side test and pipe(fds).
CreatePipe ==
    /\ pc = "pipe"
    /\ hpc = "none"
    /\ IF cmd1 = << >> \/ cmd2 = << >>
       THEN /\ err_out' = Append(err_out, "Error: Pipe syntax requires two commands")
            /\ pc' = "continue"
            /\ UNCHANGED <<fds, npipes, errno>>
       ELSE \/ /\ err_out' = Append(err_out, "pipe")
               /\ errno' = "EMFILE"
               /\ pc' = "continue"
               /\ UNCHANGED <<fds, npipes>>
            \/ /\ LET free == PipeIds \ PipesInUse
                      n == CHOOSE k \in free : \A k2 \in free : k <= k2
                  IN  fds' = [id |-> n, r |-> TRUE, w |-> TRUE]
               /\ npipes' = npipes + 1
               /\ pc' = "resolve_pipe"
               /\ UNCHANGED <<err_out, errno>>
    /\ UNCHANGED <<input, line, trimmed, toks, spans, tok_error, background, redir_error,
                   cmd1, cmd2, has_pipe, input_file, output_file, pids, reported,
                   nforks, nopens, kernelVars, shellVars>>
    /\ UNCHANGED <<sigint, hpc, saved>>

\* The two extraction loops, then the empty-command test (which closes the
\* pipe before it continues).
ResolvePipe ==
    /\ pc = "resolve_pipe"
    /\ hpc = "none"
    /\ LET l == ExtractLeft(cmd1, 1, << >>, << >>)
           r == ExtractRight(cmd2, 1, << >>, << >>)
       IN  /\ input_file' = l.input
           /\ output_file' = r.output
           /\ cmd1' = l.argv
           /\ cmd2' = r.argv
           /\ IF l.argv = << >> \/ r.argv = << >>
              THEN /\ err_out' = Append(err_out, "Error: Pipe commands cannot be empty")
                   /\ fds' = [fds EXCEPT !.r = FALSE, !.w = FALSE]
                   /\ pc' = "continue"
              ELSE /\ pc' = "fork1"
                   /\ UNCHANGED <<err_out, fds>>
    /\ UNCHANGED <<input, line, trimmed, toks, spans, tok_error, background, redir_error,
                   has_pipe, pids, reported, nforks, npipes, nopens, kernelVars,
                   shellVars>>
    /\ UNCHANGED sigVars

\* pid1 = fork(): on failure perror, both descriptors closed, continue.
Fork1 ==
    /\ pc = "fork1"
    /\ hpc = "none"
    /\ \/ /\ err_out' = Append(err_out, "fork")
          /\ errno' = "EAGAIN"
          /\ fds' = [fds EXCEPT !.r = FALSE, !.w = FALSE]
          /\ pc' = "continue"
          /\ UNCHANGED <<procs, pids, nforks>>
       \/ /\ FreePids # {}
          /\ LET p == CHOOSE q \in FreePids : \A q2 \in FreePids : q <= q2
             IN  /\ procs' = [procs EXCEPT
                                 ![p] = NewChild("left", cmd1, input_file, << >>)]
                 /\ pids' = <<p>>
          /\ nforks' = nforks + 1
          /\ pc' = "fork2"
          /\ UNCHANGED <<err_out, fds, errno>>
    /\ UNCHANGED <<input, line, trimmed, toks, spans, tok_error, background, redir_error,
                   cmd1, cmd2, has_pipe, input_file, output_file, reported, npipes,
                   nopens, sigchld, shellVars>>
    /\ UNCHANGED <<sigint, hpc, saved>>

\* pid2 = fork() whose failure path continues without closing the pipe.
Fork2FailureLeavesPipeOpen ==
    /\ pc = "fork2"
    /\ hpc = "none"
    /\ \/ /\ err_out' = Append(err_out, "fork")
          /\ errno' = "EAGAIN"
          /\ pc' = "continue"
          /\ UNCHANGED <<procs, pids, nforks, fds>>
       \/ /\ FreePids # {}
          /\ LET p == CHOOSE q \in FreePids : \A q2 \in FreePids : q <= q2
             IN  /\ procs' = [procs EXCEPT
                                 ![p] = NewChild("right", cmd2, << >>, output_file)]
                 /\ pids' = Append(pids, p)
          /\ nforks' = nforks + 1
          /\ pc' = "close"
          /\ UNCHANGED <<err_out, fds, errno>>
    /\ UNCHANGED <<input, line, trimmed, toks, spans, tok_error, background, redir_error,
                   cmd1, cmd2, has_pipe, input_file, output_file, reported, npipes,
                   nopens, sigchld, shellVars>>
    /\ UNCHANGED <<sigint, hpc, saved>>

\* pid2 = fork(): on failure perror, both descriptors closed, continue (the
\* left child stays).
Fork2 ==
    /\ pc = "fork2"
    /\ hpc = "none"
    /\ \/ /\ err_out' = Append(err_out, "fork")
          /\ errno' = "EAGAIN"
          /\ fds' = [fds EXCEPT !.r = FALSE, !.w = FALSE]
          /\ pc' = "continue"
          /\ UNCHANGED <<procs, pids, nforks>>
       \/ /\ FreePids # {}
          /\ LET p == CHOOSE q \in FreePids : \A q2 \in FreePids : q <= q2
             IN  /\ procs' = [procs EXCEPT
                                 ![p] = NewChild("right", cmd2, << >>, output_file)]
                 /\ pids' = Append(pids, p)
          /\ nforks' = nforks + 1
          /\ pc' = "close"
          /\ UNCHANGED <<err_out, fds, errno>>
    /\ UNCHANGED <<input, line, trimmed, toks, spans, tok_error, background, redir_error,
                   cmd1, cmd2, has_pipe, input_file, output_file, reported, npipes,
                   nopens, sigchld, shellVars>>
    /\ UNCHANGED <<sigint, hpc, saved>>

\* The parent going on to the background test with its pipe descriptors
\* left open.
ParentCloseLeavesPipeOpen ==
    /\ pc = "close"
    /\ hpc = "none"
    /\ UNCHANGED fds
    /\ IF ~background
       THEN pc' = "wait1" /\ UNCHANGED reported
       ELSE pc' = "continue" /\ reported' = pids
    /\ UNCHANGED <<input, parseVars, input_file, output_file, pids, nforks, npipes, nopens,
                   kernelVars, shellVars>>
    /\ UNCHANGED sigVars

\* close(fds[0]); close(fds[1]) in the parent, then the background test.
ParentClose ==
    /\ pc = "close"
    /\ hpc = "none"
    /\ fds' = [fds EXCEPT !.r = FALSE, !.w = FALSE]
    /\ IF ~background
       THEN pc' = "wait1" /\ UNCHANGED reported
       ELSE pc' = "continue" /\ reported' = pids
    /\ UNCHANGED <<input, parseVars, input_file, output_file, pids, nforks, npipes, nopens,
                   kernelVars, shellVars>>
    /\ UNCHANGED sigVars

\* waitpid(pid1, &status1, 0).
Wait1 ==
    /\ pc = "wait1"
    /\ hpc = "none"
    /\ WaitReturns(pids[1])
    /\ procs' = Reap(pids[1])
    /\ errno' = WaitErrno(pids[1])
    /\ pc' = "wait2"
    /\ UNCHANGED <<input, parseVars, launchVars, sigchld, shellVars>>
    /\ UNCHANGED <<sigint, hpc, saved>>

\* waitpid(pid2, &status2, 0); the loop body ends.
Wait2 ==
    /\ pc = "wait2"
    /\ hpc = "none"
    /\ WaitReturns(pids[2])
    /\ procs' = Reap(pids[2])
    /\ errno' = WaitErrno(pids[2])
    /\ pc' = "continue"
    /\ UNCHANGED <<input, parseVars, launchVars, sigchld, shellVars>>
    /\ UNCHANGED <<sigint, hpc, saved>>

\* --------------------------------------------------------------- children
\* A child's death: its descriptors close, it becomes a zombie and the
\* kernel raises SIGCHLD for the shell.
Die(p, status) ==
    /\ procs' = [procs EXCEPT ![p] = [@ EXCEPT !.st = "zombie", !.status = status,
                                               !.stdin = TTY, !.stdout = TTY,
                                               !.pipe = 0, !.r = FALSE, !.w = FALSE]]
    /\ sigchld' = TRUE

\* The child branch without its signal(SIGINT, SIG_DFL).
ChildSigDflSkipped(p) ==
    /\ procs[p].st = "sigdfl"
    /\ procs' = [procs EXCEPT ![p] = [@ EXCEPT
                     !.st = IF procs[p].role = "single" THEN "open_in" ELSE "dup"]]
    /\ UNCHANGED <<input, pc, parseVars, launchVars, sigchld, shellVars>>
    /\ UNCHANGED sigVars

\* signal(SIGINT, SIG_DFL), first statement of every child branch.
ChildSigDfl(p) ==
    /\ procs[p].st = "sigdfl"
    /\ procs' = [procs EXCEPT ![p] = [@ EXCEPT !.sigint = "dfl",
                     !.st = IF procs[p].role = "single" THEN "open_in" ELSE "dup"]]
    /\ UNCHANGED <<input, pc, parseVars, launchVars, sigchld, shellVars>>
    /\ UNCHANGED sigVars

\* The child closes both of its pipe descriptors without the dup2.
ChildDupNoDup2(p) ==
    /\ procs[p].st = "dup"
    /\ procs' = [procs EXCEPT ![p] =
          IF procs[p].role = "left"
          THEN [@ EXCEPT !.r = FALSE, !.w = FALSE, !.st = "open_in"]
          ELSE [@ EXCEPT !.r = FALSE, !.w = FALSE, !.st = "open_out"]]
    /\ UNCHANGED <<input, pc, parseVars, launchVars, sigchld, shellVars>>
    /\ UNCHANGED sigVars

\* dup2 of the pipe end, the child's two pipe descriptors left open.
ChildDupKeepsDescriptors(p) ==
    /\ procs[p].st = "dup"
    /\ procs' = [procs EXCEPT ![p] =
          IF procs[p].role = "left"
          THEN [@ EXCEPT !.stdout = PipeEnd("pipe_w", procs[p].pipe),
                         !.st = "open_in"]
          ELSE [@ EXCEPT !.stdin = PipeEnd("pipe_r", procs[p].pipe),
                         !.st = "open_out"]]
    /\ UNCHANGED <<input, pc, parseVars, launchVars, sigchld, shellVars>>
    /\ UNCHANGED sigVars

\* dup2 of the pipe end onto stdout (left) or stdin (right), then both of
\* the child's pipe descriptors are closed.
ChildDup(p) ==
    /\ procs[p].st = "dup"
    /\ procs' = [procs EXCEPT ![p] =
          IF procs[p].role = "left"
          THEN [@ EXCEPT !.stdout = PipeEnd("pipe_w", procs[p].pipe),
                         !.r = FALSE, !.w = FALSE, !.st = "open_in"]
          ELSE [@ EXCEPT !.stdin = PipeEnd("pipe_r", procs[p].pipe),
                         !.r = FALSE, !.w = FALSE, !.st = "open_out"]]
    /\ UNCHANGED <<input, pc, parseVars, launchVars, sigchld, shellVars>>
    /\ UNCHANGED sigVars

CountOpen(p) == IF procs[p].cur THEN nopens + 1 ELSE nopens

\* The input redirection going on to the next statement after a failed
\* open.
ChildOpenInIgnoresFailure(p) ==
    /\ procs[p].st = "open_in"
    /\ LET next == IF procs[p].role = "single" THEN "open_out" ELSE "exec"
       IN  IF procs[p].in_file = << >>
           THEN /\ procs' = [procs EXCEPT ![p] = [@ EXCEPT !.st = next]]
                /\ UNCHANGED <<sigchld, nopens>>
           ELSE \/ /\ procs' = [procs EXCEPT ![p] = [@ EXCEPT !.st = next]]
                   /\ UNCHANGED <<sigchld, nopens>>
                \/ /\ procs' = [procs EXCEPT ![p] =
                          [@ EXCEPT !.stdin = File(procs[p].in_file), !.st = next]]
                   /\ nopens' = CountOpen(p)
                   /\ UNCHANGED sigchld
    /\ UNCHANGED <<input, pc, parseVars, input_file, output_file, fds, pids, reported,
                   nforks, npipes, shellVars>>
    /\ UNCHANGED sigVars

\* The single-command child opening its output file first: by the time the
\* open of the input file fails the output file has been opened.
ChildOpenInAfterOutput(p) ==
    /\ procs[p].st = "open_in"
    /\ LET next == IF procs[p].role = "single" THEN "open_out" ELSE "exec"
       IN  IF procs[p].in_file = << >>
           THEN /\ procs' = [procs EXCEPT ![p] = [@ EXCEPT !.st = next]]
                /\ UNCHANGED <<sigchld, nopens>>
           ELSE \/ /\ Die(p, 1)
                   /\ nopens' = IF procs[p].out_file # << >> THEN CountOpen(p) ELSE nopens
                \/ /\ procs' = [procs EXCEPT ![p] =
                          [@ EXCEPT !.stdin = File(procs[p].in_file), !.st = next]]
                   /\ nopens' = CountOpen(p)
                   /\ UNCHANGED sigchld
    /\ UNCHANGED <<input, pc, parseVars, input_file, output_file, fds, pids, reported,
                   nforks, npipes, shellVars>>
    /\ UNCHANGED sigVars

\* if (!input_file.empty()): open O_RDONLY; on failure perror and _exit(1).
ChildOpenIn(p) ==
    /\ procs[p].st = "open_in"
    /\ LET next == IF procs[p].role = "single" THEN "open_out" ELSE "exec"
       IN  IF procs[p].in_file = << >>
           THEN /\ procs' = [procs EXCEPT ![p] = [@ EXCEPT !.st = next]]
                /\ UNCHANGED <<sigchld, nopens>>
           ELSE \/ /\ Die(p, 1)
                   /\ UNCHANGED nopens
                \/ /\ procs' = [procs EXCEPT ![p] =
                          [@ EXCEPT !.stdin = File(procs[p].in_file), !.st = next]]
                   /\ nopens' = CountOpen(p)
                   /\ UNCHANGED sigchld
    /\ UNCHANGED <<input, pc, parseVars, input_file, output_file, fds, pids, reported,
                   nforks, npipes, shellVars>>
    /\ UNCHANGED sigVars

\* if (!output_file.empty()): open O_WRONLY|O_CREAT|O_TRUNC; on failure
\* perror and _exit(1).
ChildOpenOut(p) ==
    /\ procs[p].st = "open_out"
    /\ IF procs[p].out_file = << >>
       THEN /\ procs' = [procs EXCEPT ![p] = [@ EXCEPT !.st = "exec"]]
            /\ UNCHANGED <<sigchld, nopens>>
       ELSE \/ /\ Die(p, 1)
               /\ UNCHANGED nopens
            \/ /\ procs' = [procs EXCEPT ![p] =
                      [@ EXCEPT !.stdout = File(procs[p].out_file), !.st = "exec"]]
               /\ nopens' = CountOpen(p)
               /\ UNCHANGED sigchld
    /\ UNCHANGED <<input, pc, parseVars, input_file, output_file, fds, pids, reported,
                   nforks, npipes, shellVars>>
    /\ UNCHANGED sigVars

\* execvp(argv[0], argv): the program runs, or perror and _exit(1).
ChildExec(p) ==
    /\ procs[p].st = "exec"
    /\ \/ Die(p, 1)
       \/ /\ procs' = [procs EXCEPT ![p] = [@ EXCEPT !.st = "running"]]
          /\ UNCHANGED sigchld
    /\ UNCHANGED <<input, pc, parseVars, launchVars, shellVars>>
    /\ UNCHANGED sigVars

\* The program a child became terminates.
ChildExit(p) ==
    /\ procs[p].st = "running"
    /\ \E status \in {0, 1} : Die(p, status)
    /\ UNCHANGED <<input, pc, parseVars, launchVars, shellVars>>
    /\ UNCHANGED sigVars

\* The kernel runs sigchld_handler for a pending SIGCHLD (blocked while the
\* handler runs): int saved = errno.  It can happen wherever main stands,
\* while the shell lives; main is suspended until the handler returns.
HandlerEnter ==
    /\ sigchld
    /\ hpc = "none"
    /\ pc \notin {"done", "aborted"}
    /\ sigchld' = FALSE
    /\ saved' = errno
    /\ hpc' = "poll"
    /\ UNCHANGED <<input, pc, parseVars, launchVars, shellVars, procs, sigint, errno>>

\* One waitpid(-1, &status, WNOHANG) that leaves the handler after the
\* first child it reaps.
HandlerPollOnce ==
    /\ hpc = "poll"
    /\ LET zombies == {p \in Pids : procs[p].st = "zombie"}
           children == {p \in Pids : procs[p].st # "free"}
       IN  IF zombies # {}
           THEN /\ \E p \in zombies : procs' = Reap(p)
                /\ hpc' = "restore"
                /\ UNCHANGED errno
           ELSE /\ errno' = IF children = {} THEN "ECHILD" ELSE errno
                /\ hpc' = "restore"
                /\ UNCHANGED procs
    /\ UNCHANGED <<input, pc, parseVars, launchVars, shellVars, sigchld, sigint, saved>>

\* One waitpid(-1, &status, 0) of the loop, without WNOHANG: with children
\* there and none terminated the call does not return.
HandlerPollBlocking ==
    /\ hpc = "poll"
    /\ LET zombies == {p \in Pids : procs[p].st = "zombie"}
           children == {p \in Pids : procs[p].st # "free"}
       IN  IF zombies # {}
           THEN /\ \E p \in zombies : procs' = Reap(p)
                /\ UNCHANGED <<hpc, errno>>
           ELSE /\ children = {}
                /\ errno' = "ECHILD"
                /\ hpc' = "restore"
                /\ UNCHANGED procs
    /\ UNCHANGED <<input, pc, parseVars, launchVars, shellVars, sigchld, sigint, saved>>

\* One waitpid(-1, &status, WNOHANG) of the loop: a terminated child is
\* reaped and the loop goes on; with none it returns 0 (children there) or
\* -1 with ECHILD (no children) and the loop ends.
HandlerPoll ==
    /\ hpc = "poll"
    /\ LET zombies == {p \in Pids : procs[p].st = "zombie"}
           children == {p \in Pids : procs[p].st # "free"}
       IN  IF zombies # {}
           THEN /\ \E p \in zombies : procs' = Reap(p)
                /\ UNCHANGED <<hpc, errno>>
           ELSE /\ errno' = IF children = {} THEN "ECHILD" ELSE errno
                /\ hpc' = "restore"
                /\ UNCHANGED procs
    /\ UNCHANGED <<input, pc, parseVars, launchVars, shellVars, sigchld, sigint, saved>>

\* The handler returning without errno = saved.
HandlerReturnNoRestore ==
    /\ hpc = "restore"
    /\ hpc' = "none"
    /\ UNCHANGED <<input, pc, parseVars, launchVars, shellVars, kernelVars, sigint,
                   errno, saved>>

\* errno = saved; the handler returns and main resumes.
HandlerReturn ==
    /\ hpc = "restore"
    /\ errno' = saved
    /\ hpc' = "none"
    /\ UNCHANGED <<input, pc, parseVars, launchVars, shellVars, kernelVars, sigint,
                   saved>>

\* A step of sigchld_handler.
SigchldHandler == HandlerEnter \/ HandlerPoll \/ HandlerReturn

Next ==
    \/ ReadLine
    \/ TrimLine
    \/ TokenizeLine
    \/ DetectBackground
    \/ ValidateLine
    \/ SplitLine
    \/ Builtins
    \/ ResolveSingle
    \/ ForkSingle
    \/ ParentSingle
    \/ CreatePipe
    \/ ResolvePipe
    \/ Fork1
    \/ Fork2
    \/ ParentClose
    \/ Wait1
    \/ Wait2
    \/ Continue
    \/ HandlerEnter
    \/ HandlerPoll
    \/ HandlerReturn
    \/ \E p \in Pids :
          \/ ChildSigDfl(p)
          \/ ChildDup(p)
          \/ ChildOpenIn(p)
          \/ ChildOpenOut(p)
          \/ ChildExec(p)
          \/ ChildExit(p)

Spec == Init /\ [][Next]_vars

\* Foreground and background commands and pipelines, the lines that leave
\* children behind.
LiveLines ==
    {Join(ws) : ws \in
        {<<S("a")>>, <<S("a"), AMP>>, <<S("a"), BAR, S("7")>>,
         <<S("a"), BAR, S("7"), AMP>>}}

\* The shell started on up to MaxLines of them.
InitLive ==
    /\ input \in SeqsUpTo(LiveLines, MaxLines)
    /\ pc = "prompt"
    /\ line = << >>
    /\ InitCommon

\* The kernel delivers a pending SIGCHLD: the handler was installed before
\* the loop and SIGCHLD is never blocked outside the handler itself.
SpecLive == InitLive /\ [][Next]_vars /\ WF_vars(SigchldHandler)


\* ------------------------------------------------- properties: the parser
IsOpChar(c) == c \in {"<", ">", "|", "&"}
OpTokens == {LT, GT, BAR, AMP}

\* Position i of ln lies inside a quoted span: an odd number of double
\* quotes precedes it.
InQuote(ln, i) == Cardinality({j \in 1..(i - 1) : ln[j] = QUOTE}) % 2 = 1

\* The double quotes of ln pair up.
Balanced(ln) == Cardinality({j \in 1..Len(ln) : ln[j] = QUOTE}) % 2 = 0

\* toks and spans are what tokenize returned for trimmed (nothing popped yet).
JustTokenized ==
    \/ pc = "background"
    \/ pc = "continue" /\ trimmed # << >> /\ toks = << >> /\ ~background

\* validate_redirection has run on toks.
Validated ==
    \/ pc \in {"split", "builtin"}
    \/ pc = "continue" /\ toks # << >>

\* split_pipe has run on toks.
Splitted ==
    \/ pc = "builtin"
    \/ pc = "continue" /\ toks # << >> /\ redir_error = ""

\* The positions of trimmed that tokens came from, token after token.
KeptPositions == UNION {{spans[k][j] : j \in 1..Len(spans[k])} : k \in 1..Len(spans)}

CountTok(ts, t) == Cardinality({i \in 1..Len(ts) : ts[i] = t})

\* C1: every <, >, | or & outside a quoted span is a token of its own,
\* whatever stands next to it (so `a>a` gives [a, >, a] like `a > a`).
C1_UnquotedOperatorIsOwnToken ==
    pc = "background" =>
        \A i \in 1..Len(trimmed) :
            (IsOpChar(trimmed[i]) /\ ~InQuote(trimmed, i)) =>
                \E k \in 1..Len(spans) : spans[k] = <<i>>

\* Token k is a single operator character that stood inside a quoted span.
QuotedOpTok(k) ==
    /\ Len(spans[k]) = 1
    /\ IsOpChar(trimmed[spans[k][1]])
    /\ InQuote(trimmed, spans[k][1])

\* toks with every quoted operator character replaced by a plain argument.
LiteralToks ==
    [k \in 1..Len(toks) |-> IF QuotedOpTok(k) THEN S("a") ELSE toks[k]]

\* The last character of trimmed that is not a double quote (0 if none).
LastKept ==
    LET ks == {i \in 1..Len(trimmed) : trimmed[i] # QUOTE}
    IN  IF ks = {} THEN 0 ELSE CHOOSE i \in ks : \A j \in ks : j <= i

\* C2: an operator character that stood inside a quoted span is argument
\* text for every later stage: it does not set the background flag, the
\* validator's verdict is the one for a plain argument in its place, and
\* it does not split the line (redirection extraction follows validation).
C2_QuotedOperatorIsLiteral ==
    /\ background => ~InQuote(trimmed, LastKept)
    /\ Validated => redir_error = validate_redirection(LiteralToks)
    /\ (Splitted /\ validate_redirection(LiteralToks) = "") =>
          IF split_pipe(LiteralToks).left = << >>
          THEN pc = "continue"
          ELSE /\ pc = "builtin"
               /\ Len(cmd1) = Len(split_pipe(LiteralToks).left)

\* C3: a line with balanced quotes tokenizes without error; no token is
\* empty; tokens are the line's characters in order; quoted whitespace is
\* kept, unquoted whitespace is dropped, and two kept characters share a
\* token exactly when no unquoted whitespace stands between them.
C3_BalancedLineTokens ==
    (JustTokenized /\ Balanced(trimmed)) =>
        /\ tok_error = ""
        /\ Len(spans) = Len(toks)
        /\ \A k \in 1..Len(toks) :
              /\ toks[k] # << >>
              /\ Len(spans[k]) = Len(toks[k])
              /\ \A j \in 1..Len(toks[k]) : toks[k][j] = trimmed[spans[k][j]]
              /\ \A j \in 1..(Len(spans[k]) - 1) : spans[k][j] < spans[k][j + 1]
        /\ \A k \in 1..(Len(spans) - 1) :
              spans[k][Len(spans[k])] < spans[k + 1][1]
        /\ KeptPositions =
              {i \in 1..Len(trimmed) :
                  trimmed[i] # QUOTE /\ (InQuote(trimmed, i) \/ ~isspace(trimmed[i]))}
        /\ \A p, q \in KeptPositions :
              p < q =>
                 ((\E k \in 1..Len(spans) :
                       \E j1, j2 \in 1..Len(spans[k]) :
                           spans[k][j1] = p /\ spans[k][j2] = q)
                  <=> ~\E m \in (p + 1)..(q - 1) :
                          isspace(trimmed[m]) /\ ~InQuote(trimmed, m))

\* `"a a" a` gives [a a, a].
C3_Witness ==
    /\ pc = "background"
    /\ trimmed = QuotedExample
    /\ toks = <<<<"a", SP, "a">>, <<"a">>>>

\* C5: a sequence in which some < or > is last, or is followed by one of
\* <, >, |, &, is rejected with a non-empty error.
C5_DanglingRedirectionRejected ==
    Validated =>
        ((\E i \in 1..Len(toks) :
              /\ toks[i] \in {LT, GT}
              /\ (i = Len(toks) \/ toks[i + 1] \in OpTokens))
         => redir_error # "")

C5_Witness ==
    /\ Validated
    /\ redir_error = "Error: > operator followed by another operator"
    /\ \E i \in 1..(Len(toks) - 1) : toks[i] = GT /\ toks[i + 1] = AMP

\* C6: a sequence with two < tokens or two > tokens anywhere in the line is
\* rejected with a non-empty error.
C6_DuplicateRedirectionRejected ==
    Validated =>
        ((CountTok(toks, LT) >= 2 \/ CountTok(toks, GT) >= 2) => redir_error # "")

C6_Witness ==
    /\ Validated
    /\ redir_error = "Error: Multiple input redirections not supported"
    /\ CountTok(toks, LT) = 2
    /\ CountTok(toks, BAR) = 1

\* -------------------------------------------------- properties: the shell
\* No side effect in this iteration: no child forked, no pipe created, no
\* file opened, no directory change, and the shell still runs.
NoSideEffect ==
    /\ nforks = 0
    /\ npipes = 0
    /\ nopens = 0
    /\ nchdir = 0
    /\ ~fds.r /\ ~fds.w
    /\ \A p \in Pids : ~procs[p].cur
    /\ exit_code = -1
    /\ pc \notin {"done", "aborted"}

\* C4: tokenize returns the unterminated-quote error, with no token, exactly
\* for a line with an odd number of double quotes; after that error main
\* drops the line without a side effect and its next step is back to the
\* prompt.
C4_UnterminatedQuote ==
    /\ [](JustTokenized =>
            IF Balanced(trimmed)
            THEN tok_error = ""
            ELSE tok_error = "Error: Unterminated quote" /\ toks = << >>)
    /\ [](tok_error # "" => (pc = "continue" /\ NoSideEffect))
    /\ [][(tok_error # "" /\ pc' # pc) => pc' = "prompt"]_vars

\* An unterminated quote on a line that another line follows.
C4_Witness ==
    /\ tok_error = "Error: Unterminated quote"
    /\ pc = "continue"
    /\ err_out = <<"Error: Unterminated quote">>
    /\ input # << >>

\* C7: a line validate_redirection rejects has no side effect, also when it
\* starts with exit or cd, and main's next step is back to the prompt.
C7_RejectedLineHasNoSideEffect ==
    /\ [](redir_error # "" => (pc = "continue" /\ NoSideEffect))
    /\ [][(redir_error' # "" \/ redir_error # "") =>
              (cwd' = cwd /\ exit_code' = exit_code /\ fds' = fds)]_vars
    /\ [][(redir_error # "" /\ pc' # pc) => pc' = "prompt"]_vars

\* A rejected line whose first token is a built-in.
C7_Witness ==
    /\ redir_error # ""
    /\ pc = "continue"
    /\ toks[1] \in {EXIT, CD}

\* C8: a line with two or more | tokens forks nothing and creates no pipe;
\* once split_pipe has run on it, the error is reported and the line dropped.
C8_MultiplePipesAbort ==
    CountTok(toks, BAR) >= 2 =>
        /\ nforks = 0
        /\ npipes = 0
        /\ \A p \in Pids : ~procs[p].cur
        /\ pc \notin {"builtin", "resolve", "fork", "parent", "pipe", "resolve_pipe",
                      "fork1", "fork2", "close", "wait1", "wait2"}
        /\ Splitted =>
              /\ pc = "continue"
              /\ err_out = <<"Error: Multiple pipes not supported">>

\* `a | 7 | a`-like lines after split_pipe.
C8_Witness ==
    /\ Splitted
    /\ CountTok(toks, BAR) = 2
    /\ toks[1] = S("a")
    /\ err_out = <<"Error: Multiple pipes not supported">>

\* The position of the only | of ts.
PipeAt(ts) == CHOOSE i \in 1..Len(ts) : ts[i] = BAR

\* toks holds exactly one |, with tokens on both sides of it.
OnePipeBetweenCommands ==
    /\ CountTok(toks, BAR) = 1
    /\ toks[1] # BAR
    /\ toks[Len(toks)] # BAR

\* C9: a validated line that is no built-in takes the pipeline path exactly
\* when it holds a | token: with one | (commands on both sides) the left
\* command is the tokens before it, the right command the tokens after it,
\* and two children and one pipe are made; with none, one child and no pipe.
C9_PipelineWheneverPipeToken ==
    /\ pc \in {"resolve", "fork", "parent"} => ~OnePipeBetweenCommands
    /\ (pc = "pipe" /\ OnePipeBetweenCommands) =>
          /\ cmd1 = SubSeq(toks, 1, PipeAt(toks) - 1)
          /\ cmd2 = SubSeq(toks, PipeAt(toks) + 1, Len(toks))
    /\ pc = "parent" => (nforks = 1 /\ npipes = 0)
    /\ pc \in {"close", "wait1", "wait2"} =>
          (OnePipeBetweenCommands /\ nforks = 2 /\ npipes = 1)

\* C10: a line whose | has no token on its left or on its right forks
\* nothing; once split_pipe has run on it, it is dropped with a message.
C10_EmptyPipeSideIsSyntaxError ==
    (toks # << >> /\ (toks[1] = BAR \/ toks[Len(toks)] = BAR)) =>
        /\ nforks = 0
        /\ Splitted => (pc = "continue" /\ err_out # << >>)

\* ------------------------------------------------ redirection extraction
\* The token that follows op in cmd; empty when cmd holds no op.
RedirTarget(cmd, op) ==
    IF \E i \in 1..(Len(cmd) - 1) : cmd[i] = op
    THEN cmd[(CHOOSE i \in 1..(Len(cmd) - 1) : cmd[i] = op) + 1]
    ELSE << >>

\* The positions of cmd that hold neither < or > nor the token after one.
ArgPositions(cmd) ==
    {i \in 1..Len(cmd) :
        cmd[i] \notin {LT, GT} /\ (i = 1 \/ cmd[i - 1] \notin {LT, GT})}

\* The tokens of cmd at the positions P, in their order in cmd.
Pick(cmd, P) ==
    LET at == [k \in 1..Cardinality(P) |->
                  CHOOSE i \in P : Cardinality({j \in P : j < i}) = k - 1]
    IN  [k \in 1..Cardinality(P) |-> cmd[at[k]]]

\* C11: on the single-command path the token list is a validated one and
\* extraction gives input_file the token after <, output_file the token
\* after > (empty without one) and leaves as argument vector exactly the
\* other tokens in their order: no < or >, no redirection target.
C11_SingleExtraction ==
    [][(pc = "resolve" /\ pc' # "resolve") =>
          /\ validate_redirection(toks) = ""
          /\ input_file' = RedirTarget(cmd1, LT)
          /\ output_file' = RedirTarget(cmd1, GT)
          /\ cmd1' = Pick(cmd1, ArgPositions(cmd1))
          /\ pc' = IF ArgPositions(cmd1) = {} THEN "continue" ELSE "fork"]_vars

\* `c < i > o a` resolved: argv [c, a], input i, output o.
C11_Witness ==
    /\ pc = "fork"
    /\ toks = <<S("c"), LT, S("i"), GT, S("o"), S("a")>>
    /\ cmd1 = <<S("c"), S("a")>>
    /\ input_file = S("i")
    /\ output_file = S("o")

\* C12: in a pipeline each child's argument vector is exactly the tokens of
\* its side that are neither < or > nor the token after one; so the file
\* name after a > on the left side, or after a < on the right side, is no
\* argument of the command.
C12_PipelineArgv ==
    \A p \in Pids :
        /\ (procs[p].cur /\ procs[p].role = "left") =>
              procs[p].argv = Pick(split_pipe(toks).left,
                                   ArgPositions(split_pipe(toks).left))
        /\ (procs[p].cur /\ procs[p].role = "right") =>
              procs[p].argv = Pick(split_pipe(toks).right,
                                   ArgPositions(split_pipe(toks).right))

\* The standard stream a redirection to the file f gives (the terminal
\* without one).
Stream(f) == IF f = << >> THEN TTY ELSE File(f)

\* C13: from exec on, a left child's standard output is the write end and
\* a right child's standard input the read end of its pipe (one pipe for
\* the two children of a line), whatever redirections the line has; the
\* left child's standard input is the file after the left side's < and the
\* right child's standard output the file after the right side's >.
C13_PipeWiring ==
    /\ \A p \in Pids :
          procs[p].st \in {"exec", "running"} =>
             /\ procs[p].role = "left" =>
                   /\ procs[p].pipe # 0
                   /\ procs[p].stdout = PipeEnd("pipe_w", procs[p].pipe)
                   /\ procs[p].cur =>
                         procs[p].stdin =
                            Stream(RedirTarget(split_pipe(toks).left, LT))
             /\ procs[p].role = "right" =>
                   /\ procs[p].pipe # 0
                   /\ procs[p].stdin = PipeEnd("pipe_r", procs[p].pipe)
                   /\ procs[p].cur =>
                         procs[p].stdout =
                            Stream(RedirTarget(split_pipe(toks).right, GT))
    /\ pc \in {"close", "wait1", "wait2"} =>
          \A p \in {pids[1], pids[2]} :
              procs[p].st \in {"exec", "running"} => procs[p].pipe = fds.id

\* `a < 7 | 7 > 7`: both children at exec, wired to the pipe and the files.
C13_Witness ==
    /\ pc = "wait1"
    /\ toks = <<S("a"), LT, S("7"), BAR, S("7"), GT, S("7")>>
    /\ procs[pids[1]].st = "exec" /\ procs[pids[2]].st = "exec"
    /\ procs[pids[1]].stdin = File(S("7"))
    /\ procs[pids[1]].stdout = PipeEnd("pipe_w", fds.id)
    /\ procs[pids[2]].stdin = PipeEnd("pipe_r", fds.id)
    /\ procs[pids[2]].stdout = File(S("7"))

\* Child p has terminated (and may have been reaped since).
Terminated(p) == procs[p].st \in {"zombie", "free"}

\* C14: when the loop body of a foreground line ends (the next thing is
\* the prompt), every child forked for that line has terminated, whenever
\* the SIGCHLD handler ran.
C14_ForegroundWaits ==
    (pc = "continue" /\ ~background) =>
        \A p \in Pids : procs[p].cur => Terminated(p)

\* C15: the parent branch of a background line never waits: its step can
\* be taken whatever its children do, it leads to the end of the loop body
\* with the pid of the one child, or the two pids of the pipeline, reported
\* and no child reaped by main; and at the prompt the next line can be read
\* whatever earlier children do.
C15_BackgroundDoesNotWait ==
    /\ [](/\ background => pc \notin {"wait1", "wait2"}
          /\ (background /\ pc = "parent" /\ hpc = "none") => ENABLED ParentSingle
          /\ (background /\ pc = "close" /\ hpc = "none") => ENABLED ParentClose
          /\ (pc = "prompt" /\ hpc = "none") => ENABLED ReadLine
          /\ (background /\ pc = "continue" /\ nforks = 1 /\ ~has_pipe) =>
                (Len(pids) = 1 /\ reported = pids)
          /\ (background /\ pc = "continue" /\ nforks = 2) =>
                (Len(pids) = 2 /\ reported = pids))
    /\ [][(background /\ pc \in {"parent", "close"} /\ pc' = "continue") =>
            procs' = procs]_vars

\* After `a &` the line `a` has been read and its child forked while the
\* background child, whose pid was reported, still runs.
C15_Witness ==
    /\ pc = "parent"
    /\ ~background
    /\ toks = <<S("a")>>
    /\ \E p \in Pids : procs[p].st = "running" /\ ~procs[p].cur
                          /\ procs[p].role = "single"
    /\ \E p \in Pids : procs[p].st = "running" /\ procs[p].cur

\* C16: while the shell runs, a child that has terminated does not stay a
\* zombie: it is reaped by the foreground wait or by the handler, be it a
\* foreground child, a background child or the left child of a pipeline
\* whose second fork failed (given that a pending SIGCHLD is delivered).
C16_ZombiesReaped ==
    \A p \in Pids :
        (procs[p].st = "zombie") ~>
            (procs[p].st # "zombie" \/ pc \in {"done", "aborted"})

\* A background child whose pid was reported has terminated and the
\* handler has reaped it before the loop body ended.
C16_Witness ==
    /\ pc = "continue"
    /\ background
    /\ reported = pids
    /\ Len(pids) = 1
    /\ procs[pids[1]].st = "free"
    /\ ~sigchld

\* ---------------------------------------------------------------- built-ins
\* t is a decimal integer: an optional sign, then digits and nothing else.
IsInteger(t) ==
    LET d == IF t # << >> /\ t[1] \in {"-", "+"} THEN Tail(t) ELSE t
    IN  d # << >> /\ \A i \in 1..Len(d) : isdigit(d[i])

RECURSIVE Decimal(_)
\* The number the digit string d denotes.
Decimal(d) ==
    IF d = << >> THEN 0 ELSE Decimal(Front(d)) * 10 + DigitVal(d[Len(d)])

\* The number the decimal integer t denotes.
IntValue(t) ==
    IF t[1] = "-" THEN 0 - Decimal(Tail(t))
    ELSE IF t[1] = "+" THEN Decimal(Tail(t))
    ELSE Decimal(t)

\* C17: the shell has ended only at end of input, with 0, or on a line
\* whose first token is exit: with 0 when nothing follows it, with the
\* integer that follows it otherwise.  Nothing else ends it.
C17_TerminatesOnlyOnExitOrEof ==
    pc \in {"done", "aborted"} =>
        /\ pc = "done"
        /\ \/ toks = << >> /\ input = << >> /\ exit_code = 0
           \/ /\ toks # << >>
              /\ toks[1] = EXIT
              /\ IF Len(toks) = 1 THEN exit_code = 0
                 ELSE IsInteger(toks[2]) /\ exit_code = IntValue(toks[2])

\* C18: a line `exit x` where x is no integer does not end the shell; it
\* is dropped with a message.
C18_ExitNonIntegerRecovers ==
    (toks # << >> /\ toks[1] = EXIT /\ Len(toks) > 1 /\ ~IsInteger(toks[2])) =>
        /\ pc \notin {"done", "aborted"}
        /\ pc = "continue" => err_out # << >>

\* C19: while the line in hand has exit or cd as its first token, nothing
\* has been forked, no pipe created and no redirection file opened for it,
\* and main stands outside the launcher, whatever else the line holds.
C19_BuiltinsInShellProcess ==
    (toks # << >> /\ toks[1] \in {EXIT, CD}) =>
        /\ nforks = 0 /\ npipes = 0 /\ nopens = 0
        /\ \A p \in Pids : ~procs[p].cur
        /\ ~fds.r /\ ~fds.w
        /\ pc \in {"background", "validate", "split", "builtin", "continue",
                    "done", "aborted"}

\* `cd | 7 &` has run chdir in the shell: nothing forked, no pipe.
C19_Witness ==
    /\ pc = "continue"
    /\ toks = <<CD, BAR, S("7")>>
    /\ background
    /\ has_pipe
    /\ nchdir = 1
    /\ nforks = 0 /\ npipes = 0

\* C20: the cd built-in ends the loop body either with the working
\* directory changed to its argument, or to the home directory without an
\* argument, or (chdir refused) with the error reported and the working
\* directory the one before the line; the shell goes on.
C20_CdFailureKeepsDirectory ==
    [][(pc = "builtin" /\ toks[1] = CD /\ pc' # "builtin") =>
          /\ pc' = "continue"
          /\ exit_code' = exit_code
          /\ \/ /\ nchdir' = nchdir + 1
                /\ cwd' = IF Len(toks) > 1 THEN toks[2] ELSE HOME
                /\ err_out' = err_out
             \/ /\ nchdir' = nchdir
                /\ cwd' = cwd
                /\ Len(err_out') = Len(err_out) + 1]_vars

\* `cd a` was refused: reported, and the shell still is where it started.
C20_Witness ==
    /\ pc = "continue"
    /\ toks = <<CD, S("a")>>
    /\ err_out = <<"cd">>
    /\ cwd = ROOT
    /\ nchdir = 0

\* ----------------------------------------------------------------- signals
\* C21: the shell ignores SIGINT in every state, and a child that is past
\* the first statement of its branch (about to dup2, open a redirection
\* file or exec, or running its program) has SIGINT at its default; a
\* child that has not yet done so has touched no descriptor.
C21_InterruptDisposition ==
    /\ sigint = "ign"
    /\ \A p \in Pids :
          /\ procs[p].st \in {"dup", "open_in", "open_out", "exec", "running"} =>
                procs[p].sigint = "dfl"
          /\ (procs[p].st # "free" /\ procs[p].sigint # "dfl") =>
                /\ procs[p].st = "sigdfl"
                /\ procs[p].stdin = TTY /\ procs[p].stdout = TTY

\* A pipeline's children at exec, one with a redirection file opened, both
\* with SIGINT at default, under a shell that ignores it.
C21_Witness ==
    /\ sigint = "ign"
    /\ pc = "wait1"
    /\ \E p, q \in Pids :
          /\ procs[p].role = "left" /\ procs[q].role = "right"
          /\ procs[p].st = "exec" /\ procs[q].st = "exec"
          /\ procs[p].stdin = File(S("7"))
          /\ procs[p].sigint = "dfl" /\ procs[q].sigint = "dfl"

\* ---------------------------------------------------------------- launcher
\* A fork of the line in hand has failed (perror("fork") was called).
ForkFailed == \E k \in 1..Len(err_out) : err_out[k] = "fork"

\* C22: when a fork made for a line has failed, no child of that line
\* exists as the loop body ends.
C22_ForkFailureLeavesNoProcess ==
    (pc = "continue" /\ ForkFailed) =>
        \A p \in Pids : ~procs[p].cur

\* C23: a child stands at exec, or runs its program, only with the files
\* of its redirections opened; a child that dies in an open or in exec
\* dies with a nonzero status, and that step leaves main where it is, the
\* shell alive and every other child as it was; a dead child does nothing
\* more (it is never back in main's loop).
C23_ChildFailureEndsChildOnly ==
    /\ [](\A p \in Pids :
            procs[p].st \in {"exec", "running"} =>
               /\ procs[p].role \in {"single", "left"} =>
                     procs[p].stdin = Stream(procs[p].in_file)
               /\ procs[p].role \in {"single", "right"} =>
                     procs[p].stdout = Stream(procs[p].out_file))
    /\ [][\A p \in Pids :
            (procs[p].st \in {"open_in", "open_out", "exec"}
                /\ procs'[p].st = "zombie") =>
               /\ procs'[p].status # 0
               /\ pc' = pc
               /\ exit_code' = exit_code
               /\ \A q \in Pids \ {p} : procs'[q] = procs[q]]_vars
    /\ [][\A p \in Pids :
            procs[p].st = "zombie" => procs'[p].st \in {"zombie", "free"}]_vars

\* `a < 7 | 7 > 7`: the left child died in its open (no file was opened for
\* the line); the right child runs and the shell waits.
C23_Witness ==
    /\ pc = "wait1"
    /\ toks = <<S("a"), LT, S("7"), BAR, S("7"), GT, S("7")>>
    /\ procs[pids[1]].st = "zombie"
    /\ procs[pids[1]].status = 1
    /\ nopens = 0
    /\ procs[pids[2]].st = "open_out"

\* C24: on the pipeline path the pipe exists, with both of the parent's
\* descriptors open, before the first fork and until after the second;
\* the parent has forked both children and closed both descriptors before
\* it waits for either child and before it reports the pids.
C24_PipelineOrder ==
    /\ [](/\ pc \in {"resolve_pipe", "fork1"} =>
                (npipes = 1 /\ nforks = 0 /\ fds.r /\ fds.w)
          /\ pc = "fork2" => (npipes = 1 /\ nforks = 1 /\ fds.r /\ fds.w)
          /\ pc = "close" =>
                (npipes = 1 /\ nforks = 2 /\ fds.r /\ fds.w /\ reported = << >>)
          /\ pc \in {"wait1", "wait2"} => (nforks = 2 /\ ~fds.r /\ ~fds.w)
          /\ (has_pipe /\ reported # << >>) => (nforks = 2 /\ ~fds.r /\ ~fds.w))
    /\ [][(has_pipe /\ nforks' > nforks) =>
            (npipes = 1 /\ fds.r /\ fds.w /\ fds' = fds)]_vars
    /\ [][(has_pipe /\ hpc = "none" /\ hpc' = "none"
                /\ \E p \in Pids : procs[p].st = "zombie" /\ procs'[p].st = "free") =>
            (nforks = 2 /\ ~fds.r /\ ~fds.w)]_vars

\* Both children of `a | 7` forked, the parent's descriptors closed, the
\* parent at its first waitpid with both children alive.
C24_Witness ==
    /\ pc = "wait1"
    /\ toks = <<S("a"), BAR, S("7")>>
    /\ nforks = 2 /\ npipes = 1
    /\ ~fds.r /\ ~fds.w
    /\ procs[pids[1]].st = "running" /\ procs[pids[2]].st = "running"

\* ------------------------------------------------------------ descriptors
\* The children that hold the write end of pipe n: as the descriptor
\* fds[1] they inherited, or as a standard stream.
WriteHolders(n) ==
    {p \in Pids :
        /\ procs[p].st \notin {"free", "zombie"}
        /\ \/ procs[p].pipe = n /\ procs[p].w
           \/ procs[p].stdout = PipeEnd("pipe_w", n)
           \/ procs[p].stdin = PipeEnd("pipe_w", n)}

\* The children that hold the read end of pipe n.
ReadHolders(n) ==
    {p \in Pids :
        /\ procs[p].st \notin {"free", "zombie"}
        /\ \/ procs[p].pipe = n /\ procs[p].r
           \/ procs[p].stdin = PipeEnd("pipe_r", n)
           \/ procs[p].stdout = PipeEnd("pipe_r", n)}

\* The shell holds a descriptor of pipe n.
ParentHolds(n) == fds.id = n /\ (fds.r \/ fds.w)

\* Child p is at exec or runs its program.
AtExec(p) == procs[p].st \in {"exec", "running"}

ShellOpenFds == (IF fds.r THEN 1 ELSE 0) + (IF fds.w THEN 1 ELSE 0)

\* C26: whenever the loop body has ended or the shell is at the prompt, the
\* shell holds no open pipe descriptor, whichever way the pipeline branch
\* was left; every iteration starts with the same number of descriptors.
C26_DescriptorsReleased ==
    (pc \in {"continue", "prompt"}) => ShellOpenFds = 0

\* The loop body of a pipeline line has ended after the second fork failed,
\* the pipe having been created and the first child forked.
C26_Witness ==
    /\ pc = "continue"
    /\ has_pipe /\ npipes = 1 /\ nforks = 1
    /\ ForkFailed
    /\ ShellOpenFds = 0

\* ----------------------------------------------------------------- handler
\* The children that have terminated and are not reaped.
Zombies == {p \in Pids : procs[p].st = "zombie"}

\* C27: an invocation of sigchld_handler never blocks (in every state of
\* the handler its next step can be taken) and it ends; the poll that ends
\* its loop leaves no terminated child unreaped, however many had
\* terminated before the signal was delivered; with no terminated child
\* the first poll ends the loop and reaps nothing.
C27_HandlerReapsAll ==
    /\ [](hpc # "none" => ENABLED SigchldHandler)
    /\ [][(hpc = "poll" /\ hpc' # "poll") =>
              (procs' = procs /\ \A p \in Pids : procs'[p].st # "zombie")]_vars
    /\ (hpc # "none") ~> (hpc = "none")

\* The handler runs on one delivery of SIGCHLD with two children that
\* terminated before it.
C27_Witness ==
    /\ hpc = "poll"
    /\ ~sigchld
    /\ Cardinality(Zombies) = 2

\* The variables of main: its position, its locals and the shell's own
\* state.
mainVars ==
    <<input, pc, line, trimmed, toks, tok_error, background, redir_error, cmd1, cmd2,
      has_pipe, input_file, output_file, pids, fds, reported, err_out, shellVars,
      sigint>>

\* C28: the handler leaves the computation it interrupts as it found it:
\* errno when it returns is errno as it was when it was entered, whatever
\* its polls did to errno in between; no step taken while the handler runs
\* changes a variable of main; of the kernel's children the handler only
\* removes terminated ones.
C28_HandlerPreservesState ==
    /\ [][(hpc = "none" /\ hpc' # "none") => (saved' = errno /\ errno' = errno)]_vars
    /\ [][(hpc # "none" /\ hpc' # "none") => saved' = saved]_vars
    /\ [][(hpc # "none" /\ hpc' = "none") => errno' = saved]_vars
    /\ [][(hpc # "none" \/ hpc' # "none") => UNCHANGED mainVars]_vars
    /\ [][(hpc # "none" \/ hpc' # "none") =>
              \A p \in Pids :
                 \/ procs'[p] = procs[p]
                 \/ procs[p].st = "zombie" /\ procs'[p] = NoProc
                 \/ procs[p].st \notin {"free", "zombie"} /\ procs'[p].st # "free"]_vars

\* The handler's last poll found no child at all and set errno to ECHILD;
\* the value saved at entry is another one and is about to be restored.
C28_Witness ==
    /\ hpc = "restore"
    /\ errno = "ECHILD"
    /\ saved # "ECHILD"

\* -------------------------------------------------- handler and foreground wait
\* The blocking waitpid calls of main.
ForegroundWait ==
    \/ ~background /\ ParentSingle
    \/ Wait1
    \/ Wait2

\* The shell with a pending SIGCHLD eventually delivered and a waitpid that
\* can return eventually returning.
SpecWait ==
    InitLive /\ [][Next]_vars /\ WF_vars(SigchldHandler) /\ WF_vars(ForegroundWait)

\* Main is in the waitpid at position w for a child that has terminated.
AwaitedTerminated(w) ==
    /\ pc = w
    /\ ~background
    /\ Terminated(pids[IF w = "wait2" THEN 2 ELSE 1])

\* C29: whichever of the handler and the foreground waitpid gets to a
\* terminated child first, the child is reaped once: a child's entry leaves
\* the kernel's table only from the terminated state, one child per step;
\* a foreground waitpid whose child has terminated can return, also when
\* the handler has reaped the child already, and it does return.
C29_ReapRace ==
    /\ [][\A p \in Pids :
            (procs[p].st # "free" /\ procs'[p].st = "free") =>
                /\ procs[p].st = "zombie"
                /\ \A q \in Pids \ {p} : procs'[q] = procs[q]]_vars
    /\ [](\A w \in {"parent", "wait1", "wait2"} :
            (AwaitedTerminated(w) /\ hpc = "none") => ENABLED ForegroundWait)
    /\ \A w \in {"parent", "wait1", "wait2"} : AwaitedTerminated(w) ~> (pc # w)

\* The foreground waitpid of a single command has returned with ECHILD: the
\* handler had reaped the child before.
C29_Witness ==
    /\ pc = "continue"
    /\ hpc = "none"
    /\ ~background /\ ~has_pipe
    /\ nforks = 1
    /\ procs[pids[1]].st = "free"
    /\ errno = "ECHILD"

\* ------------------------------------------------------------ background flag
\* The last token of the tokenized line is "&".
TrailingAmp(ts) == ts # << >> /\ ts[Len(ts)] = AMP

\* The positions of main before the background detection has run.
BeforeDetection == {"prompt", "trim", "tokenize", "background"}

\* The "&" arguments in the argv of the children forked for this line.
AmpArguments ==
    {<<p, i>> \in Pids \X (1..MaxLen) :
        /\ \E k \in 1..Len(pids) : pids[k] = p
        /\ i <= Len(procs[p].argv)
        /\ procs[p].argv[i] = AMP}

\* The "&" tokens of ts.
AmpTokens(ts) == {i \in 1..Len(ts) : ts[i] = AMP}

\* C30: once the detection has run on a tokenized line, the background
\* flag is true exactly when the last token of the tokenization of the line
\* is "&", and toks is the tokenization without that token; the argv of the
\* line's children hold no more "&" than toks does then, so the removed one
\* is in none; a line whose only token is "&" ends with nothing forked and
\* no pipe made; before the detection of every line the flag is false.
C30_BackgroundFlag ==
    /\ pc \in BeforeDetection => ~background
    /\ (pc \notin BeforeDetection /\ tok_error = "") =>
          LET ts == tokenize(trimmed).tokens
          IN  /\ background = TrailingAmp(ts)
              /\ toks = IF TrailingAmp(ts) THEN Front(ts) ELSE ts
              /\ Cardinality(AmpArguments) <= Cardinality(AmpTokens(toks))
              /\ ts = <<AMP>> =>
                    (pc = "continue" /\ nforks = 0 /\ npipes = 0 /\ pids = << >>)

\* The second line of the input is in the foreground after a first line
\* that was in the background, and the child of a line before it, `a &`,
\* runs with the argv [a].
C30_Witness ==
    /\ pc = "parent"
    /\ ~background
    /\ input = << >>
    /\ \E p \in Pids :
          /\ ~procs[p].cur
          /\ procs[p].st = "running"
          /\ procs[p].argv = <<S("a")>>
          /\ procs[p].role = "single"

\* ------------------------------------------------------------- empty commands
\* The command cmd holds redirections and no argument: it has tokens and
\* every one is < or > or the token after one.
OnlyRedirections(cmd) == cmd # << >> /\ ArgPositions(cmd) = {}

\* A side of the validated line holds no argument.
SideWithoutArguments ==
    LET sp == split_pipe(toks)
    IN  \/ OnlyRedirections(sp.left)
        \/ (\E i \in 1..Len(toks) : toks[i] = BAR) /\ OnlyRedirections(sp.right)

\* C31: every child that exists was forked with an argv of at least one
\* argument; and for a validated line with a side that holds only
\* redirections (the line `> out`, a side of a pipeline that is only a
\* redirection) nothing is forked and no file is opened.
C31_EmptySideAbandoned ==
    /\ \A p \in Pids : procs[p].st # "free" => procs[p].argv # << >>
    /\ (/\ pc \notin BeforeDetection \cup {"validate"}
        /\ tok_error = "" /\ redir_error = ""
        /\ SideWithoutArguments) =>
          /\ nforks = 0
          /\ nopens = 0
          /\ \A p \in Pids : ~procs[p].cur
\* ------------------------------------------------------- order of the opens
\* C32: a single-command child opens its input file before its output
\* file: until the input redirection is done its standard output is the
\* terminal, when it turns to the output file its standard input is the
\* input file (or the terminal without one), and a child that ends on the
\* failed open of its input file has opened no file; files are opened by
\* the steps of a forked child only, never by a step of main.
C32_InputBeforeOutput ==
    /\ [](\A p \in Pids :
            procs[p].role = "single" =>
               /\ procs[p].st \in {"sigdfl", "open_in"} =>
                     (procs[p].stdin = TTY /\ procs[p].stdout = TTY)
               /\ procs[p].st = "open_out" =>
                     (procs[p].stdin = Stream(procs[p].in_file) /\ procs[p].stdout = TTY))
    /\ [][\A p \in Pids :
            (procs[p].role = "single" /\ procs[p].st = "open_in"
                /\ procs'[p].st = "zombie") =>
               (nopens' = nopens /\ (procs[p].cur => nopens = 0))]_vars
    /\ [][nopens' > nopens =>
            /\ pc' = pc
            /\ nforks > 0
            /\ \E p \in Pids :
                  /\ procs[p].cur
                  /\ procs[p].st \in {"open_in", "open_out"}
                  /\ procs'[p] # procs[p]
                  /\ \/ procs'[p].stdin = File(procs[p].in_file)
                     \/ procs'[p].stdout = File(procs[p].out_file)]_vars

\* The child of `a < 7 > 7` has ended with status 1 on the open of its
\* input file and no file was opened for the line.
C32_Witness ==
    /\ nopens = 0
    /\ \E p \in Pids :
          /\ procs[p].cur
          /\ procs[p].role = "single"
          /\ procs[p].in_file # << >>
          /\ procs[p].out_file # << >>
          /\ procs[p].st = "zombie"
          /\ procs[p].status = 1

====
